---- MODULE Spec2Model ----
(***************************************************************************)
(* Model of src/src/lib.rs: StripeListener, its signature verification     *)
(* (parse_signature, verify_signature, verify) and process.                *)
(*                                                                         *)
(* Text is a sequence of one-character strings; a byte string is a         *)
(* sequence of numbers 0..255.  Option<T> is a sequence of length 0 (None) *)
(* or 1 (Some(x)).                                                         *)
(***************************************************************************)
EXTENDS Integers, Sequences, FiniteSets, TLC

VARIABLES secret, op, pc, headers, signature_header, payload, input, ret

vars == <<secret, op, pc, headers, signature_header, payload, input, ret>>

(***************************************************************************)
(* Bounds                                                                  *)
(***************************************************************************)
\* largest number of comma-separated segments in a generated header value
MaxSegments == 3

(***************************************************************************)
(* Text and Option helpers                                                 *)
(***************************************************************************)
\* a Rust string literal as a sequence of characters
Str(s) == [i \in 1..Len(s) |-> SubSeq(s, i, i)]

None == <<>>
Some(x) == <<x>>
IsSome(o) == Len(o) = 1
IsNone(o) == Len(o) = 0
Unwrap(o) == o[1]

\* the printable ASCII characters with code 32 to 95, in order
AsciiLow == Str(" !\"#$%&'()*+,-./0123456789:;<=>?@ABCDEFGHIJKLMNOPQRSTUVWXYZ[\\]^_")

\* the printable ASCII characters with code 97 to 126, in order (the grave
\* accent, code 96, is left out of the alphabet)
AsciiHigh == Str("abcdefghijklmnopqrstuvwxyz{|}~")

AsciiChars == {AsciiLow[i] : i \in 1..Len(AsciiLow)} \cup {AsciiHigh[i] : i \in 1..Len(AsciiHigh)}

\* str::as_bytes on ASCII text: the code of each character
AsciiCode ==
    [c \in AsciiChars |->
        IF \E i \in 1..Len(AsciiLow) : AsciiLow[i] = c
        THEN 31 + CHOOSE i \in 1..Len(AsciiLow) : AsciiLow[i] = c
        ELSE 96 + CHOOSE i \in 1..Len(AsciiHigh) : AsciiHigh[i] = c]

AsBytes(s) == [i \in 1..Len(s) |-> AsciiCode[s[i]]]

\* position of the first occurrence of character c in s at or after i, else 0
RECURSIVE Find(_, _, _)
Find(s, c, i) ==
    IF i > Len(s) THEN 0
    ELSE IF s[i] = c THEN i
    ELSE Find(s, c, i + 1)

\* str::split(c): the pieces between the separators, at least one piece
RECURSIVE Split(_, _)
Split(s, c) ==
    LET p == Find(s, c, 1)
    IN  IF p = 0 THEN <<s>>
        ELSE <<SubSeq(s, 1, p - 1)>> \o Split(SubSeq(s, p + 1, Len(s)), c)

\* str::splitn(2, c): the text before the first separator and, when there is
\* a separator, the whole rest after it
SplitN2(s, c) ==
    LET p == Find(s, c, 1)
    IN  IF p = 0 THEN <<s>>
        ELSE <<SubSeq(s, 1, p - 1), SubSeq(s, p + 1, Len(s))>>

(***************************************************************************)
(* StripeListener::parse_signature                                         *)
(***************************************************************************)
\* ParsePart with the v1 arm unguarded: a later v1 replaces an earlier one
ParsePartLastSig(acc, part) ==
    LET kv == SplitN2(part, "=")
    IN  IF Len(kv) = 2 /\ kv[1] = Str("t") THEN <<Some(kv[2]), acc[2]>>
        ELSE IF Len(kv) = 2 /\ kv[1] = Str("v1") THEN <<acc[1], Some(kv[2])>>
        ELSE acc

\* ParsePart taking the signature from any versioned key (v0, v1, ...)
ParsePartAnyScheme(acc, part) ==
    LET kv == SplitN2(part, "=")
    IN  IF Len(kv) = 2 /\ kv[1] = Str("t") THEN <<Some(kv[2]), acc[2]>>
        ELSE IF Len(kv) = 2 /\ Len(kv[1]) = 2 /\ kv[1][1] = "v" /\ IsNone(acc[2])
             THEN <<acc[1], Some(kv[2])>>
        ELSE acc

\* one iteration of the loop over the parts: acc = <<ts, sig>>
ParsePart(acc, part) ==
    LET kv == SplitN2(part, "=")
    IN  IF Len(kv) = 2 /\ kv[1] = Str("t") THEN <<Some(kv[2]), acc[2]>>
        ELSE IF Len(kv) = 2 /\ kv[1] = Str("v1") /\ IsNone(acc[2])
             THEN <<acc[1], Some(kv[2])>>
        ELSE acc

RECURSIVE ParseLoop(_, _, _)
ParseLoop(acc, parts, i) ==
    IF i > Len(parts) THEN acc
    ELSE ParseLoop(ParsePart(acc, parts[i]), parts, i + 1)

\* Option<(String, String)>: Some(<<timestamp, signature_hex>>) or None
ParseSignature(header) ==
    LET r == ParseLoop(<<None, None>>, Split(header, ","), 1)
    IN  IF IsSome(r[1]) /\ IsSome(r[2])
        THEN Some(<<Unwrap(r[1]), Unwrap(r[2])>>)
        ELSE None

(***************************************************************************)
(* HMAC-SHA256 (hmac and sha2 crates), hex::decode, subtle::ct_eq          *)
(***************************************************************************)
\* length in bytes of a SHA-256 digest
DigestLen == 32

\* one output byte of the digest: folds the input bytes at positions
\* i, i + DigestLen, i + 2 * DigestLen, ... into acc
RECURSIVE Mix(_, _, _)
Mix(bytes, i, acc) ==
    IF i > Len(bytes) THEN acc
    ELSE Mix(bytes, i + DigestLen, (acc * 33 + bytes[i] + 1) % 256)

\* Stands for SHA-256: a fixed function from byte strings to DigestLen
\* bytes.  Two inputs of the same length that differ in one byte have
\* different digests (33 is odd, so each step is a bijection of acc).
Sha256(bytes) == [j \in 1..DigestLen |-> Mix(bytes, j, (Len(bytes) + 7 * j) % 256)]

\* <HmacSha256 as KeyInit>::new_from_slice: HMAC takes a key of any length
NewFromSlice(key) == Some(key)

\* Update::update followed by finalize().into_bytes(): the digest of the
\* message under the key, an abstract function of key and message
HmacFinalize(key, message) == Sha256(key \o <<Len(key) % 256>> \o message)

HexDigits == Str("0123456789abcdef")
HexDigitsUpper == Str("0123456789ABCDEF")

\* the value 0..15 of a hexadecimal digit of either case, -1 for any other
\* character
HexVal(c) ==
    IF \E i \in 1..16 : HexDigits[i] = c
    THEN (CHOOSE i \in 1..16 : HexDigits[i] = c) - 1
    ELSE IF \E i \in 1..16 : HexDigitsUpper[i] = c
    THEN (CHOOSE i \in 1..16 : HexDigitsUpper[i] = c) - 1
    ELSE -1

\* hex::decode: None for an odd length or a character that is no hex digit
HexDecode(s) ==
    IF Len(s) % 2 # 0 THEN None
    ELSE IF \E i \in 1..Len(s) : HexVal(s[i]) < 0 THEN None
    ELSE Some([i \in 1..(Len(s) \div 2) |->
                  16 * HexVal(s[2 * i - 1]) + HexVal(s[2 * i])])

\* CtEq that misses the first byte
CtEqSkipsFirst(a, b) ==
    IF Len(a) # Len(b) THEN 0
    ELSE IF \A i \in 2..Len(a) : a[i] = b[i] THEN 1 ELSE 0

\* subtle::ConstantTimeEq for slices: 0 for different lengths, else the
\* conjunction of the byte equalities, with no early exit
CtEq(a, b) ==
    IF Len(a) # Len(b) THEN 0
    ELSE IF \A i \in 1..Len(a) : a[i] = b[i] THEN 1 ELSE 0

(***************************************************************************)
(* StripeListener::verify_signature                                        *)
(***************************************************************************)
\* SignedPayload without the separating period
SignedPayloadNoDot(timestamp, body) == timestamp \o body

\* format!("{timestamp}.{payload}")
SignedPayload(timestamp, body) == timestamp \o Str(".") \o body

\* VerifyParsed with the early return for undecodable hex inverted
VerifyParsedAcceptsBadHex(key, parsed, body) ==
    LET expected == HmacFinalize(AsBytes(key), AsBytes(SignedPayload(parsed[1], body)))
        sig_bytes == HexDecode(parsed[2])
    IN  IF IsNone(sig_bytes) THEN TRUE
        ELSE IF Len(expected) # Len(Unwrap(sig_bytes)) THEN FALSE
        ELSE CtEq(expected, Unwrap(sig_bytes)) = 1

\* the steps after the header is parsed: the parsed pair is
\* <<timestamp, signature_hex>>
VerifyParsed(key, parsed, body) ==
    LET mac == NewFromSlice(AsBytes(key))
        expected == HmacFinalize(Unwrap(mac), AsBytes(SignedPayload(parsed[1], body)))
        sig_bytes == HexDecode(parsed[2])
    IN  IF IsNone(mac) THEN FALSE
        ELSE IF IsNone(sig_bytes) THEN FALSE
        ELSE IF Len(expected) # Len(Unwrap(sig_bytes)) THEN FALSE
        ELSE CtEq(expected, Unwrap(sig_bytes)) = 1

VerifySignature(key, header, body) ==
    LET parsed == ParseSignature(header)
    IN  IF IsNone(parsed) THEN FALSE
        ELSE VerifyParsed(key, Unwrap(parsed), body)

(***************************************************************************)
(* http::HeaderMap                                                         *)
(*                                                                         *)
(* A header map is a sequence of entries [name, value]; names are stored   *)
(* in lower case.  A value is a sequence of octets: a printable ASCII      *)
(* octet is its character, any other octet is a longer token ("0xE9").     *)
(***************************************************************************)
\* the lower-case form of an ASCII character
LowerChar(c) ==
    IF \E i \in 34..59 : AsciiLow[i] = c
    THEN AsciiHigh[(CHOOSE i \in 34..59 : AsciiLow[i] = c) - 33]
    ELSE c

LowerName(name) == [i \in 1..Len(name) |-> LowerChar(name[i])]

\* HeaderMap::get(name): the value of the first entry with that name,
\* compared without regard to case
RECURSIVE GetFrom(_, _, _)
GetFrom(map, name, i) ==
    IF i > Len(map) THEN None
    ELSE IF map[i].name = name THEN Some(map[i].value)
    ELSE GetFrom(map, name, i + 1)

HeaderGet(map, name) == GetFrom(map, LowerName(name), 1)

\* HeaderValue::to_str: the value as text when every octet is visible ASCII
ToStr(value) ==
    IF \A i \in 1..Len(value) : value[i] \in AsciiChars THEN Some(value) ELSE None

(***************************************************************************)
(* StripeListener::verify                                                  *)
(***************************************************************************)
\* Option<bool>: None when the header is absent or is not text
Verify(key, map, body) ==
    LET value == HeaderGet(map, Str("Stripe-Signature"))
        text == IF IsSome(value) THEN ToStr(Unwrap(value)) ELSE None
    IN  IF IsNone(value) THEN None
        ELSE IF IsNone(text) THEN None
        ELSE Some(VerifySignature(key, Unwrap(text), body))

(***************************************************************************)
(* serde_json::from_str::<StripeEventRequest>                              *)
(*                                                                         *)
(* A serde_json::Value is [k |-> kind, v |-> content]: the content of a    *)
(* string or number is its text, of an object the sequence of its          *)
(* <<key, value>> members in document order.  The grammar covers objects,  *)
(* strings without escapes, integers, true, false and null.                *)
(***************************************************************************)
JNull == [k |-> "null", v |-> <<>>]
JBool(b) == [k |-> "bool", v |-> <<b>>]
JString(text) == [k |-> "string", v |-> text]
JNumber(text) == [k |-> "number", v |-> text]
JObject(members) == [k |-> "object", v |-> members]

\* the result of a parsing step: the value read and the position after it
ParseOk(val, pos) == [ok |-> TRUE, val |-> val, pos |-> pos]
ParseFail == [ok |-> FALSE, val |-> JNull, pos |-> 0]

Digits == {"0", "1", "2", "3", "4", "5", "6", "7", "8", "9"}

\* the first position at or after i that holds no white space
RECURSIVE SkipWs(_, _)
SkipWs(s, i) ==
    IF i <= Len(s) /\ s[i] = " " THEN SkipWs(s, i + 1) ELSE i

\* the first position at or after i that holds no digit
RECURSIVE SkipDigits(_, _)
SkipDigits(s, i) ==
    IF i <= Len(s) /\ s[i] \in Digits THEN SkipDigits(s, i + 1) ELSE i

\* s holds the text lit at position i
HasLit(s, i, lit) ==
    /\ i + Len(lit) - 1 <= Len(s)
    /\ SubSeq(s, i, i + Len(lit) - 1) = lit

\* a string whose opening quote is at i
ParseString(s, i) ==
    LET j == Find(s, "\"", i + 1)
    IN  IF j = 0 THEN ParseFail
        ELSE ParseOk(JString(SubSeq(s, i + 1, j - 1)), j + 1)

\* an integer that starts at i
ParseNumber(s, i) ==
    LET d == IF s[i] = "-" THEN i + 1 ELSE i
        e == SkipDigits(s, d)
    IN  IF e = d THEN ParseFail
        ELSE ParseOk(JNumber(SubSeq(s, i, e - 1)), e)

RECURSIVE ParseValue(_, _)
RECURSIVE ParseMembers(_, _, _)

\* the members of an object from position i, after "{" or ","
ParseMembers(s, i, acc) ==
    LET j == SkipWs(s, i)
        key == IF j <= Len(s) /\ s[j] = "\"" THEN ParseString(s, j) ELSE ParseFail
        c == SkipWs(s, key.pos)
        val == IF key.ok /\ c <= Len(s) /\ s[c] = ":"
               THEN ParseValue(s, c + 1) ELSE ParseFail
        d == SkipWs(s, val.pos)
        members == Append(acc, <<key.val.v, val.val>>)
    IN  IF ~val.ok \/ d > Len(s) THEN ParseFail
        ELSE IF s[d] = "," THEN ParseMembers(s, d + 1, members)
        ELSE IF s[d] = "}" THEN ParseOk(JObject(members), d + 1)
        ELSE ParseFail

\* an object whose "{" is at i
ParseObject(s, i) ==
    LET j == SkipWs(s, i + 1)
    IN  IF j <= Len(s) /\ s[j] = "}" THEN ParseOk(JObject(<<>>), j + 1)
        ELSE ParseMembers(s, i + 1, <<>>)

\* the value that starts at or after i
ParseValue(s, i) ==
    LET j == SkipWs(s, i)
    IN  IF j > Len(s) THEN ParseFail
        ELSE IF s[j] = "{" THEN ParseObject(s, j)
        ELSE IF s[j] = "\"" THEN ParseString(s, j)
        ELSE IF s[j] = "-" \/ s[j] \in Digits THEN ParseNumber(s, j)
        ELSE IF HasLit(s, j, Str("null")) THEN ParseOk(JNull, j + 4)
        ELSE IF HasLit(s, j, Str("true")) THEN ParseOk(JBool(TRUE), j + 4)
        ELSE IF HasLit(s, j, Str("false")) THEN ParseOk(JBool(FALSE), j + 5)
        ELSE ParseFail

\* a whole document: one value and nothing but white space after it
ParseDocument(s) ==
    LET r == ParseValue(s, 1)
    IN  IF r.ok /\ SkipWs(s, r.pos) > Len(s) THEN Some(r.val) ELSE None

\* the values of the members of an object that have this key
FieldValues(obj, name) ==
    LET idx == {i \in 1..Len(obj.v) : obj.v[i][1] = Str(name)}
    IN  {obj.v[i][2] : i \in idx}

FieldCount(obj, name) == Cardinality({i \in 1..Len(obj.v) : obj.v[i][1] = Str(name)})

\* a required field of a derived Deserialize struct: an error (None) when
\* the field is missing or occurs twice, or is not of the wanted kind
\* (kind "" accepts any value)
Field(obj, name, kind) ==
    IF obj.k # "object" \/ FieldCount(obj, name) # 1 THEN None
    ELSE LET val == CHOOSE x \in FieldValues(obj, name) : TRUE
         IN  IF kind = "" \/ val.k = kind THEN Some(val) ELSE None

\* Option<StripeEventRequest>: None stands for the serde_json error
FromStr(text) ==
    LET doc == ParseDocument(text)
        id == Field(Unwrap(doc), "id", "string")
        type == Field(Unwrap(doc), "type", "string")
        data == Field(Unwrap(doc), "data", "object")
        object == Field(Unwrap(data), "object", "")
    IN  IF IsNone(doc) THEN None
        ELSE IF IsNone(id) \/ IsNone(type) \/ IsNone(data) THEN None
        ELSE IF IsNone(object) THEN None
        ELSE Some([id |-> Unwrap(id).v, type |-> Unwrap(type).v,
                   data |-> [object |-> Unwrap(object)]])

(***************************************************************************)
(* StripeListener::process                                                 *)
(***************************************************************************)
Err(message) == [tag |-> "Err", err |-> message, value |-> JNull]
Ok(variant, value) == [tag |-> variant, err |-> "", value |-> value]

\* Option::is_none_or(|x| x)
IsNoneOr(o) == IF IsNone(o) THEN TRUE ELSE Unwrap(o)

\* Classify matching the known types by prefix
ClassifyByPrefix(event) ==
    IF HasLit(event.type, 1, Str("checkout.session.complete"))
    THEN Ok("CheckoutSessionCompleted", event.data.object)
    ELSE IF HasLit(event.type, 1, Str("customer.subscription.delete"))
    THEN Ok("CustomerSubscriptionDeleted", event.data.object)
    ELSE Ok("Unknown", event.data.object)

\* the match on event.type
Classify(event) ==
    IF event.type = Str("checkout.session.completed")
    THEN Ok("CheckoutSessionCompleted", event.data.object)
    ELSE IF event.type = Str("customer.subscription.deleted")
    THEN Ok("CustomerSubscriptionDeleted", event.data.object)
    ELSE Ok("Unknown", event.data.object)

\* what process does once the signature check lets the request through
ParseAndClassify(body) ==
    LET event == FromStr(body)
    IN  IF IsNone(event) THEN Err("failed to parse Stripe event")
        ELSE Classify(Unwrap(event))

Process(key, map, body) ==
    IF ~IsNoneOr(Verify(key, map, body))
    THEN Err("signature verification failed")
    ELSE ParseAndClassify(body)

(***************************************************************************)
(* Inputs: listener secrets, request bodies, signature headers             *)
(***************************************************************************)
Secrets == {Str("whsec_a"), Str("whsec_b")}

Timestamp1 == Str("1700000000")
Timestamp2 == Str("1700000060")

\* a request body with what it holds: expect is None for a body that is no
\* event, else Some of its type and its data.object
BodyOf(text, expect) == [text |-> Str(text), expect |-> expect]
Event(type, object) == Some([type |-> Str(type), object |-> object])

ObjA1 == JObject(<< <<Str("a"), JNumber(Str("1"))>> >>)
ObjA2 == JObject(<< <<Str("a"), JNumber(Str("2"))>> >>)

BodyCheckout ==
    BodyOf("{\"id\":\"e1\",\"type\":\"checkout.session.completed\",\"data\":{\"object\":{\"a\":1}}}",
           Event("checkout.session.completed", ObjA1))
BodyCheckout2 ==
    BodyOf("{\"id\":\"e1\",\"type\":\"checkout.session.completed\",\"data\":{\"object\":{\"a\":2}}}",
           Event("checkout.session.completed", ObjA2))
BodySubscription ==
    BodyOf("{\"id\":\"e2\",\"type\":\"customer.subscription.deleted\",\"data\":{\"object\":\"sub_1\"}}",
           Event("customer.subscription.deleted", JString(Str("sub_1"))))
BodyInvoice ==
    BodyOf("{\"id\":\"e3\",\"type\":\"invoice.paid\",\"data\":{\"object\":null}}",
           Event("invoice.paid", JNull))
\* a type that is a prefix of a known one, fields in another order, an
\* unknown field and white space
BodyNearMiss ==
    BodyOf("{ \"livemode\":true, \"data\":{\"object\":{\"a\":1},\"n\":-3}, \"type\":\"checkout.session.complete\", \"id\":\"e4\" }",
           Event("checkout.session.complete", ObjA1))
BodyNoId ==
    BodyOf("{\"type\":\"checkout.session.completed\",\"data\":{\"object\":{\"a\":1}}}", None)
BodyNoType ==
    BodyOf("{\"id\":\"e6\",\"data\":{\"object\":{\"a\":1}}}", None)
BodyNoObject ==
    BodyOf("{\"id\":\"e7\",\"type\":\"checkout.session.completed\",\"data\":{}}", None)
BodyTruncated ==
    BodyOf("{\"id\":\"e8\",\"type\":\"checkout.session.completed\",\"data\":{\"object\":{\"a\":1}}", None)

Bodies == {BodyCheckout, BodySubscription, BodyInvoice, BodyNearMiss,
           BodyNoId, BodyNoType, BodyNoObject, BodyTruncated}

\* bodies used where only the text of the body matters
BodyTextA == BodyCheckout.text
BodyTextB == BodyCheckout2.text

OtherBody(body) == IF body = BodyTextA THEN BodyTextB ELSE BodyTextA

\* a header segment as the sender writes it: key=val, or the bare key when
\* eq is FALSE
Seg(key, val) == [key |-> Str(key), eq |-> TRUE, val |-> val]
Bare(key) == [key |-> Str(key), eq |-> FALSE, val |-> <<>>]

SegText(seg) == IF seg.eq THEN seg.key \o Str("=") \o seg.val ELSE seg.key

\* the header value: the segments joined by commas
RECURSIVE Join(_)
Join(segs) ==
    IF Len(segs) = 0 THEN <<>>
    ELSE IF Len(segs) = 1 THEN SegText(segs[1])
    ELSE SegText(segs[1]) \o Str(",") \o Join(Tail(segs))

SeqsUpTo(S, n) == UNION {[1..m -> S] : m \in 0..n}

\* lower-case hexadecimal text of a byte string
HexEncode(bytes) ==
    [i \in 1..(2 * Len(bytes)) |->
        IF i % 2 = 1 THEN HexDigits[(bytes[(i + 1) \div 2] \div 16) + 1]
        ELSE HexDigits[(bytes[i \div 2] % 16) + 1]]

\* the same hexadecimal text with upper-case digits
ToUpperHex(s) == [i \in 1..Len(s) |-> HexDigitsUpper[HexVal(s[i]) + 1]]

\* the hexadecimal text with the lowest bit of its first byte flipped
FlipBit(s) ==
    LET v == HexVal(s[2])
    IN  [s EXCEPT ![2] = HexDigits[(IF v % 2 = 0 THEN v + 1 ELSE v - 1) + 1]]

\* the signature the sender computes: hex(HMAC-SHA256(key, "{ts}.{body}"))
Sign(key, ts, body) ==
    HexEncode(HmacFinalize(AsBytes(key), AsBytes(ts \o <<".">> \o body)))

\* ways a v1 value can differ from the correct signature for Timestamp1
Variants == {"upper", "ts2", "flip", "body", "odd", "nonhex", "short", "long", "empty"}

VariantValue(variant, good, key, body) ==
    CASE variant = "upper" -> ToUpperHex(good)
      [] variant = "ts2" -> Sign(key, Timestamp2, body)
      [] variant = "flip" -> FlipBit(good)
      [] variant = "body" -> Sign(key, Timestamp1, OtherBody(body))
      [] variant = "odd" -> SubSeq(good, 1, Len(good) - 1)
      [] variant = "nonhex" -> [good EXCEPT ![1] = "g"]
      [] variant = "short" -> SubSeq(good, 1, Len(good) - 2)
      [] variant = "long" -> good \o Str("00")
      [] variant = "empty" -> <<>>

\* the kinds of segment of a generated Stripe-Signature header: good is the
\* correct signature for Timestamp1, alt the variant of it
Kinds == {"t1", "t2", "sig", "alt", "v0"}

KindSeg(kind, good, alt) ==
    CASE kind = "t1" -> Seg("t", Timestamp1)
      [] kind = "t2" -> Seg("t", Timestamp2)
      [] kind = "sig" -> Seg("v1", good)
      [] kind = "alt" -> Seg("v1", alt)
      [] kind = "v0" -> Seg("v0", good)

KindSegs(kinds, good, alt) ==
    [i \in 1..Len(kinds) |-> KindSeg(kinds[i], good, alt)]

\* the headers generated for a listener secret and a body, each with the
\* description of how it was built
SignedInputs(key, body, kindset, variants) ==
    LET good == Sign(key, Timestamp1, body)
        alts == [v \in variants |-> VariantValue(v, good, key, body)]
    IN  {[segs |-> KindSegs(kinds, good, alts[variant]),
          kinds |-> kinds, variant |-> variant] :
            kinds \in SeqsUpTo(kindset, MaxSegments), variant \in variants}

\* the kinds and variants used for the requests given to process
ProcessKinds == {"t1", "sig", "alt"}
ProcessVariants == {"upper", "flip", "nonhex"}

\* header maps: how the Stripe-Signature header is carried
Shapes == {"text", "nontext", "absent", "empty"}

ContentType == [name |-> Str("content-type"), value |-> Str("application/json")]

HeaderMapOf(shape, value) ==
    CASE shape = "text" -> <<ContentType, [name |-> Str("stripe-signature"), value |-> value]>>
      [] shape = "nontext" -> <<[name |-> Str("stripe-signature"), value |-> value \o <<"0xE9">>]>>
      [] shape = "absent" -> <<ContentType>>
      [] shape = "empty" -> <<>>

\* short segments that exercise the header syntax
SyntaxKeys == {"t", "v1", "v0", ""}
SyntaxVals == {Str("1"), Str("2=b")}
SyntaxSegs == {Seg(k, v) : k \in SyntaxKeys, v \in SyntaxVals} \cup {Bare(k) : k \in SyntaxKeys}

(***************************************************************************)
(* State and operations                                                    *)
(*                                                                         *)
(* The listener holds only its secret and every operation is a pure        *)
(* function of the secret and its arguments, so a behaviour is one call:   *)
(* Init is a listener after new(secret) with the arguments of the call,    *)
(* and the action of the called operation runs it and records what it      *)
(* returns.  input describes how the arguments were built.                 *)
(***************************************************************************)
\* a call of parse_signature on a header value
InitParse ==
    \E segs \in SeqsUpTo(SyntaxSegs, MaxSegments) :
        /\ secret \in Secrets
        /\ op = "parse_signature"
        /\ pc = "call"
        /\ input = [segs |-> segs]
        /\ headers = <<>>
        /\ signature_header = Join(segs)
        /\ payload = <<>>
        /\ ret = <<>>

\* a call of verify_signature on a header value and a body
InitVerify ==
    \E key \in Secrets, body \in {BodyTextA, BodyTextB} :
        \E inp \in SignedInputs(key, body, Kinds, Variants) :
            /\ secret = key
            /\ op = "verify_signature"
            /\ pc = "call"
            /\ input = inp
            /\ headers = <<>>
            /\ signature_header = Join(inp.segs)
            /\ payload = body
            /\ ret = <<>>

\* a call of process on a header map and a body
InitProcess ==
    \E key \in Secrets, body \in Bodies, shape \in Shapes :
        \E inp \in SignedInputs(key, body.text, ProcessKinds, ProcessVariants) :
            /\ shape \in {"absent", "empty"} => inp.kinds = <<"t1", "sig">> /\ inp.variant = "flip"
            /\ shape = "nontext" => inp.variant = "flip" /\ Len(inp.kinds) = 2
            /\ secret = key
            /\ op = "process"
            /\ pc = "call"
            /\ input = [segs |-> inp.segs, kinds |-> inp.kinds, variant |-> inp.variant,
                        shape |-> shape, body |-> body]
            /\ headers = HeaderMapOf(shape, Join(inp.segs))
            /\ signature_header = <<>>
            /\ payload = body.text
            /\ ret = <<>>

CallParseSignature ==
    /\ pc = "call"
    /\ op = "parse_signature"
    /\ ret' = [parsed |-> ParseSignature(signature_header)]
    /\ pc' = "done"
    /\ UNCHANGED <<secret, op, headers, signature_header, payload, input>>

CallVerifySignature ==
    /\ pc = "call"
    /\ op = "verify_signature"
    /\ ret' = [parsed |-> ParseSignature(signature_header),
               valid |-> VerifySignature(secret, signature_header, payload)]
    /\ pc' = "done"
    /\ UNCHANGED <<secret, op, headers, signature_header, payload, input>>

CallProcess ==
    /\ pc = "call"
    /\ op = "process"
    /\ ret' = [verify |-> Verify(secret, headers, payload),
               event |-> FromStr(payload),
               result |-> Process(secret, headers, payload)]
    /\ pc' = "done"
    /\ UNCHANGED <<secret, op, headers, signature_header, payload, input>>

Init == InitParse \/ InitVerify \/ InitProcess

Next == CallParseSignature \/ CallVerifySignature \/ CallProcess

Spec == Init /\ [][Next]_vars

(***************************************************************************)
(* Properties                                                              *)
(***************************************************************************)
Done(o) == pc = "done" /\ op = o

ParseDone == Done("parse_signature") \/ Done("verify_signature")

\* the value of the first segment written key=value with this key
KeyIdx(segs, key) == {i \in 1..Len(segs) : segs[i].eq /\ segs[i].key = Str(key)}

FirstIdx(segs, key) == CHOOSE i \in KeyIdx(segs, key) : \A j \in KeyIdx(segs, key) : i <= j

FirstVal(segs, key) ==
    IF KeyIdx(segs, key) = {} THEN None ELSE Some(segs[FirstIdx(segs, key)].val)

KeyVals(segs, key) == {segs[i].val : i \in KeyIdx(segs, key)}

AuthError == [tag |-> "Err", err |-> "signature verification failed", value |-> JNull]
ParseError == [tag |-> "Err", err |-> "failed to parse Stripe event", value |-> JNull]

IsHexText(s) == Len(s) % 2 = 0 /\ \A i \in 1..Len(s) : s[i] \in Digits \cup {"a", "b", "c", "d", "e", "f", "A", "B", "C", "D", "E", "F"}

\* the variant the specification assigns to an event type
ExpectedVariant(type) ==
    CASE type = Str("checkout.session.completed") -> "CheckoutSessionCompleted"
      [] type = Str("customer.subscription.deleted") -> "CustomerSubscriptionDeleted"
      [] OTHER -> "Unknown"

\* C1: process called with headers that hold no Stripe-Signature header
\* returns the signature-verification error, whatever the secret and body.
C1_AbsentHeaderIsAuthError ==
    Done("process") /\ input.shape \in {"absent", "empty"} => ret.result = AuthError

\* C2: verify_signature on the header t=<ts>,v1=<hex(HMAC(secret, ts.body))>
\* and that body, with the listener's secret, returns true.
C2_SignedHeaderVerifies ==
    (/\ Done("verify_signature")
     /\ Len(input.segs) = 2
     /\ input.segs[1].eq /\ input.segs[1].key = Str("t")
     /\ input.segs[2].eq /\ input.segs[2].key = Str("v1")
     /\ input.segs[2].val = Sign(secret, input.segs[1].val, payload))
    => ret.valid

C2_Witness ==
    /\ Done("verify_signature")
    /\ input.kinds = <<"t2", "alt">> /\ input.variant = "ts2"
    /\ ret.valid

\* C3: verify_signature returns true only when the bytes decoded from the
\* selected v1 value equal HMAC(secret, selected timestamp.body); a header
\* whose signature has one bit flipped, whose timestamp was changed, or
\* whose signature is for another body does not verify.
C3_OnlyMatchingDigestVerifies ==
    Done("verify_signature") =>
        /\ ret.valid =>
              /\ IsSome(ret.parsed)
              /\ HexDecode(Unwrap(ret.parsed)[2])
                   = Some(HmacFinalize(AsBytes(secret),
                          AsBytes(Unwrap(ret.parsed)[1] \o <<".">> \o payload)))
        /\ input.kinds = <<"t1", "alt">> /\ input.variant \in {"flip", "body", "ts2"}
              => ~ret.valid
        /\ input.kinds = <<"t2", "sig">> => ~ret.valid

C3_Witness ==
    /\ Done("verify_signature")
    /\ input.kinds = <<"t1", "alt">> /\ input.variant = "flip"
    /\ ~ret.valid

\* C4: only the first v1=<value> segment is checked: the signature that
\* parse_signature selects is the value of the first segment with key v1, and
\* t=<ts>,v1=<incorrect>,v1=<correct> does not verify.
C4_FirstV1Wins ==
    /\ ParseDone /\ IsSome(ret.parsed)
          => Some(Unwrap(ret.parsed)[2]) = FirstVal(input.segs, "v1")
    /\ (/\ Done("verify_signature")
        /\ input.kinds = <<"t1", "alt", "sig">>
        /\ input.variant # "upper")
          => ~ret.valid

C4_Witness ==
    /\ Done("verify_signature")
    /\ input.kinds = <<"t1", "alt", "sig">> /\ input.variant = "flip"
    /\ IsSome(ret.parsed)
    /\ Unwrap(ret.parsed)[2] = input.segs[2].val
    /\ Unwrap(ret.parsed)[2] # input.segs[3].val
    /\ ~ret.valid

\* C5: the timestamp that parse_signature returns is the value of the first
\* t=<value> segment; later t segments are ignored.
C5_FirstTimestampWins ==
    ParseDone /\ IsSome(ret.parsed)
        => Some(Unwrap(ret.parsed)[1]) = FirstVal(input.segs, "t")

\* C6: a request whose header is present and does not verify gets the
\* authentication error whether or not its body parses, and the parse error
\* is returned only to requests whose signature verified and whose body is
\* no event.
C6_AuthErrorBeforeParsing ==
    Done("process") =>
        /\ ret.verify = Some(FALSE) => ret.result = AuthError
        /\ input.shape \in {"text", "nontext"} /\ ret.verify # Some(TRUE)
              => ret.result = AuthError
        /\ ret.result = ParseError
              => ret.verify = Some(TRUE) /\ IsNone(input.body.expect)

\* C7: a request whose signature verifies and whose body deserializes is
\* classified by exact match of its type, never rejected for an unknown
\* type, and carries the body's data.object unchanged.
C7_Classification ==
    Done("process") /\ ret.verify = Some(TRUE) /\ IsSome(input.body.expect)
        => ret.result = [tag |-> ExpectedVariant(Unwrap(input.body.expect).type),
                         err |-> "",
                         value |-> Unwrap(input.body.expect).object]

C7_Witness ==
    /\ Done("process") /\ ret.verify = Some(TRUE)
    /\ input.body = BodyNearMiss
    /\ ret.result.tag = "Unknown"
    /\ ret.result.value = ObjA1

\* C8: a header without a t=<value> segment or without a v1=<value> segment
\* does not parse and does not verify, even when it carries a correct
\* signature; what is selected always comes from a t= and a v1= segment.
C8_MissingFieldFails ==
    /\ ParseDone /\ (IsNone(FirstVal(input.segs, "t")) \/ IsNone(FirstVal(input.segs, "v1")))
          => IsNone(ret.parsed)
    /\ Done("verify_signature") /\ IsNone(ret.parsed) => ~ret.valid
    /\ ParseDone /\ IsSome(ret.parsed)
          => /\ Unwrap(ret.parsed)[1] \in KeyVals(input.segs, "t")
             /\ Unwrap(ret.parsed)[2] \in KeyVals(input.segs, "v1")

C8_Witness ==
    /\ Done("verify_signature")
    /\ input.kinds = <<"v0", "sig">>
    /\ input.segs[2].val = Sign(secret, Timestamp1, payload)
    /\ IsNone(ret.parsed)
    /\ ~ret.valid

\* C9: a Stripe-Signature header whose value is not text makes process
\* return the signature-verification error.
C9_NonTextHeaderIsAuthError ==
    Done("process") /\ input.shape = "nontext" => ret.result = AuthError

\* C10: verify_signature returns false when the selected v1 value is not
\* valid hexadecimal or does not decode to DigestLen bytes, and the case of
\* the hex digits does not change the result.
C10_MalformedHexFails ==
    Done("verify_signature") /\ IsSome(FirstVal(input.segs, "v1")) =>
        LET v1 == Unwrap(FirstVal(input.segs, "v1"))
        IN  /\ ~IsHexText(v1) => ~ret.valid
            /\ Len(v1) # 2 * DigestLen => ~ret.valid
            /\ input.variant = "upper" /\ input.kinds = <<"t1", "alt">> => ret.valid
            /\ IsHexText(v1) =>
                  ret.valid = VerifySignature(secret,
                      Join([input.segs EXCEPT ![FirstIdx(input.segs, "v1")].val = ToUpperHex(@)]),
                      payload)

C10_Witness ==
    /\ Done("verify_signature")
    /\ input.kinds = <<"t1", "alt">> /\ input.variant = "nonhex"
    /\ ~ret.valid

====
